---- MODULE Spec2Model ----
(***************************************************************************)
(* A model of teahaz/client.py: the Endpoint container, the Channel        *)
(* record, the Chatroom (request executor, listeners, channel list,        *)
(* create / login / create_channel / get_messages / send) and the Teacup   *)
(* registry.  The HTTP session is the environment: every request is        *)
(* answered by a response the server is free to choose.                    *)
(***************************************************************************)
EXTENDS Integers, Sequences, FiniteSets, TLC

(* ---------------------------------------------------------------- bounds *)
\* Polling threads one Chatroom may have started before the model stops
\* subscribing further non-error events on it.
MaxThreads == 2
\* Longest channel list the server puts into one response.
MaxBatch == 2
\* Chatroom objects the Teacup registry builds in one run.
MaxRooms == 1
MaxMessages == 2
MaxRunners == 2

(* ---------------------------------------------------------------- values *)
\* Python's None for the optional string fields; str(None) is "None" too.
None == "None"

Rooms == 1 .. MaxRooms

\* class Event
Event ==
  {"ERROR", "MSG_NEW", "MSG_DEL", "MSG_SYS", "MSG_SENT", "USER_JOIN",
   "USER_LEAVE", "SERVER_INFO", "MSG_SYS_SILENT", "NETWORK_EXCEPTION"}

\* The events and callbacks the callers of a Teacup subscribe with.
SubscribedEvents == {"ERROR", "MSG_NEW", "MSG_DEL"}
Callbacks == {"cb"}

Url == "U"
ChatroomIds == {"c2"}
ChatroomNames == {"y"}
UserIds == {"u1"}
Password == "secret"

Range(s) == {s[i] : i \in DOMAIN s}

\* Sequences over S of length at most n.
RECURSIVE SeqsUpTo(_, _)
SeqsUpTo(S, n) ==
  IF n = 0 THEN {<<>>}
  ELSE LET shorter == SeqsUpTo(S, n - 1)
       IN  shorter \cup {Append(s, x) : s \in shorter, x \in S}

(* --------------------------------------------------------------- Channel *)
\* The JSON channel objects the server may send: they share a channelID and
\* differ in the name.
ChannelDicts ==
  {[channelID |-> "h1", channel_name |-> "a", public |-> TRUE,
    permissions |-> [write |-> TRUE]],
   [channelID |-> "h1", channel_name |-> "b", public |-> TRUE,
    permissions |-> [write |-> TRUE]]}

ChannelLists == SeqsUpTo(ChannelDicts, MaxBatch)
\* The channel lists the server answers a Teacup's Chatrooms with.
ShortLists == SeqsUpTo(ChannelDicts, 1)

\* data["channelID"] works on a dict and raises TypeError on a Channel.
IsDict(data) == "channelID" \in DOMAIN data

\* Channel.from_dict
from_dict(data) ==
  [uid |-> data.channelID, name |-> data.channel_name,
   public |-> data.public, permissions |-> data.permissions]

Channels == {from_dict(d) : d \in ChannelDicts}

\* active_channel = None
NoneChannel ==
  [uid |-> None, name |-> None, public |-> FALSE,
   permissions |-> [write |-> FALSE]]

(* ----------------------------------------------------- EndpointContainer *)
\* EndpointContainer.__init__
EndpointContainer(url, uid) == [_url |-> url, _uid |-> uid]

\* EndpointContainer.__getattr__: a URL is the sequence of the pieces that
\* str.format concatenates.
Endpoint(ep, item) ==
  LET base == <<ep._url, "/api/v0">>
  IN  CASE item = "base"     -> base
        [] item = "chatroom" -> base \o <<"/chatroom">>
        [] item = "login"    -> base \o <<"/login/", ep._uid>>
        [] item = "files"    -> base \o <<"/files/", ep._uid>>
        [] item = "messages" -> base \o <<"/messages/", ep._uid>>
        [] item = "channels" -> base \o <<"/channels/", ep._uid>>

\* EndpointContainer.set: "_" + item must name an attribute of the object
\* (any other item raises KeyError; create passes "uid").
EndpointSet(ep, item, value) ==
  IF item = "uid" THEN [ep EXCEPT !._uid = value]
  ELSE IF item = "url" THEN [ep EXCEPT !._url = value]
  ELSE ep

(* -------------------------------------------------------------- Chatroom *)
NoListeners == [e \in Event |-> None]

\* Chatroom.__init__
Chatroom(url, uid, name) ==
  [uid |-> uid, url |-> url, name |-> name, user_id |-> None,
   active_channel |-> NoneChannel, channels |-> <<>>,
   endpoints |-> EndpointContainer(url, uid),
   _listeners |-> NoListeners, _is_looping |-> FALSE]

VARIABLES
  alive,      \* the Chatroom objects constructed so far
  chatroom,   \* the fields of each Chatroom object
  threads,    \* per Chatroom, the polling threads started by _run
  teacup,     \* the Teacup: chatrooms and _global_listeners
  last,       \* what the last call did: requests, handler calls, outcome
  loop,       \* per Chatroom, where its polling thread stands in _loop
  runners     \* the threads started by Teacup.thread

vars == <<alive, chatroom, threads, teacup, last, loop, runners>>

(* ------------------------------------------------------ responses (env) *)
\* What session.get / session.post may do: raise a transport exception,
\* answer 200 with a JSON body, answer 200 with a body that is no JSON, or
\* answer with another status.
TransportFailure == [kind |-> "exception", exception |-> "ConnectionError"]
ErrorResponse    == [kind |-> "response", status_code |-> 404, text |-> "not found"]
NotJson          == [kind |-> "response", status_code |-> 200, text |-> "<html>"]
Ok(body)         == [kind |-> "response", status_code |-> 200, json |-> body]

Failures == {TransportFailure, ErrorResponse, NotJson}

SessionMethods == {"get", "post"}

(* ------------------------------------------------------------- _request *)
\* The result of a call: out is "json" (a value is returned), "none" (None is
\* returned) or "raise"; calls are the handler invocations it made.
Returned(value) == [out |-> "json", value |-> value, error |-> None, calls |-> <<>>]
ReturnedNone(calls) == [out |-> "none", error |-> None, calls |-> calls]
Raised(error) == [out |-> "raise", error |-> error, calls |-> <<>>]

Invoke(event, callback, obj, method_name, req_args) ==
  [event |-> event, callback |-> callback, object |-> obj,
   method_name |-> method_name, req_args |-> req_args]

\* _request with the ERROR handler invoked and the RuntimeError raised all the
\* same (the `return None` after the handler call left out).
Request_HandlerThenRaise(self, method_name, req_args, resp) ==
  LET error_handler == self._listeners["ERROR"]
      exception_handler == self._listeners["NETWORK_EXCEPTION"]
  IN  IF resp.kind = "exception" THEN
        IF exception_handler # None
        THEN ReturnedNone(<<Invoke("NETWORK_EXCEPTION", exception_handler,
                                   resp.exception, method_name, req_args)>>)
        ELSE Raised(resp.exception)
      ELSE IF resp.status_code = 200 THEN
        IF "json" \in DOMAIN resp THEN Returned(resp.json)
        ELSE Raised("JSONDecodeError")
      ELSE IF error_handler # None
        THEN [out |-> "raise", error |-> "RuntimeError",
              calls |-> <<Invoke("ERROR", error_handler,
                                 resp, method_name, req_args)>>]
      ELSE Raised("RuntimeError")

\* _request with one handler for both failures: whichever of the two
\* listeners is bound takes the failure.
Request_AnyHandler(self, method_name, req_args, resp) ==
  LET error_handler == self._listeners["ERROR"]
      exception_handler == self._listeners["NETWORK_EXCEPTION"]
      handler == IF error_handler # None THEN error_handler ELSE exception_handler
  IN  IF resp.kind = "exception" THEN
        IF handler # None
        THEN ReturnedNone(<<Invoke("NETWORK_EXCEPTION", handler,
                                   resp.exception, method_name, req_args)>>)
        ELSE Raised(resp.exception)
      ELSE IF resp.status_code = 200 THEN
        IF "json" \in DOMAIN resp THEN Returned(resp.json)
        ELSE Raised("JSONDecodeError")
      ELSE IF handler # None
        THEN ReturnedNone(<<Invoke("ERROR", handler,
                                   resp, method_name, req_args)>>)
      ELSE Raised("RuntimeError")

\* Chatroom._request
Request(self, method_name, req_args, resp) ==
  IF method_name \notin SessionMethods THEN Raised("AttributeError")
  ELSE
    LET error_handler == self._listeners["ERROR"]
        exception_handler == self._listeners["NETWORK_EXCEPTION"]
    IN  IF resp.kind = "exception" THEN
          IF exception_handler # None
          THEN ReturnedNone(<<Invoke("NETWORK_EXCEPTION", exception_handler,
                                     resp.exception, method_name, req_args)>>)
          ELSE Raised(resp.exception)
        ELSE IF resp.status_code = 200 THEN
          IF "json" \in DOMAIN resp THEN Returned(resp.json)
          ELSE Raised("JSONDecodeError")
        ELSE IF error_handler # None
          THEN ReturnedNone(<<Invoke("ERROR", error_handler,
                                     resp, method_name, req_args)>>)
        ELSE Raised("RuntimeError")

\* What _request hands back to its caller: None or the JSON body.
Value(rq) == IF rq.out = "json" THEN <<rq.value>> ELSE <<>>

\* One _request call as observed: the request the session saw, the answer it
\* got, and how the call ended (rq).
Sent(method_name, req_args, resp, rq) ==
  [method |-> method_name, args |-> req_args, response |-> resp,
   out |-> rq.out, error |-> rq.error, returned |-> Value(rq),
   calls |-> rq.calls]

(* ------------------------------------------------- outcome of a method *)
\* A method call ends by returning (result <<>> is None, <<v>> is v) or by
\* raising; self is the object as the call leaves it.
Done(self, result, requests, calls) ==
  [self |-> self, outcome |-> "return", error |-> None, result |-> result,
   requests |-> requests, calls |-> calls]
Fail(self, error, requests, calls) ==
  [self |-> self, outcome |-> "raise", error |-> error, result |-> <<>>,
   requests |-> requests, calls |-> calls]

(* ----------------------------------------------------- _update_channels *)
\* `assert self.user_id`: None and "" are falsy.
Truthy(user_id) == user_id # None /\ user_id # ""

\* `channel not in self.channels`: list membership by ==, and the dataclass
\* compares every field.
Contains(channels, channel) == \E i \in DOMAIN channels : channels[i] = channel

\* The for loop of _update_channels over `list`, from the channel list chs:
\* it stops with TypeError at the first element that is no dict.
RECURSIVE Merge(_, _)
Merge(chs, list) ==
  IF list = <<>> THEN [channels |-> chs, raised |-> FALSE]
  ELSE IF ~IsDict(Head(list)) THEN [channels |-> chs, raised |-> TRUE]
  ELSE LET channel == from_dict(Head(list))
       IN  Merge(IF Contains(chs, channel) THEN chs ELSE Append(chs, channel),
                 Tail(list))

\* _update_channels activating the channel appended last.
Activate_Last(self) ==
  IF self.active_channel = NoneChannel /\ Len(self.channels) > 0
  THEN [self EXCEPT !.active_channel = self.channels[Len(self.channels)]]
  ELSE self

\* The first channel becomes the active one when none is.
Activate(self) ==
  IF self.active_channel = NoneChannel /\ Len(self.channels) > 0
  THEN [self EXCEPT !.active_channel = self.channels[1]]
  ELSE self

Ingest(self, list, requests) ==
  LET m == Merge(self.channels, list)
      merged == [self EXCEPT !.channels = m.channels]
  IN  IF m.raised THEN Fail(merged, "TypeError", requests, <<>>)
      ELSE Done(Activate(merged), <<>>, requests, <<>>)

\* Chatroom._update_channels: `given` tells whether channels was passed.
update_channels(self, given, channels, resp) ==
  IF ~Truthy(self.user_id) THEN Fail(self, "AssertionError", <<>>, <<>>)
  ELSE IF given THEN Ingest(self, channels, <<>>)
  ELSE
    LET req_args == [url |-> Endpoint(self.endpoints, "channels"),
                     headers |-> [userID |-> self.user_id]]
        rq == Request(self, "get", req_args, resp)
        requests == <<Sent("get", req_args, resp, rq)>>
    IN  IF rq.out = "raise" THEN Fail(self, rq.error, requests, rq.calls)
        ELSE IF rq.out = "none" THEN Done(self, <<>>, requests, rq.calls)
        ELSE Ingest(self, rq.value, requests)

(* ------------------------------------------------------------ subscribe *)
\* Chatroom._run: starts one more polling thread; n counts the threads this
\* Chatroom has started.  Nothing in _run (or anywhere) writes _is_looping.
Run(n) == n + 1

\* subscribe, had it called _run whatever the event.
StartsLoop_AnyEvent(self, event) == ~self._is_looping

\* Chatroom.subscribe: binds the callback, and calls _run when the loop is not
\* marked running and the event is no error event.
StartsLoop(self, event) ==
  ~self._is_looping /\ event \notin {"ERROR", "NETWORK_EXCEPTION"}

\* subscribe, had it kept the callback an event is already bound to.
subscribe_KeepFirst(self, n, event, callback) ==
  [self |-> IF self._listeners[event] = None
            THEN [self EXCEPT !._listeners[event] = callback] ELSE self,
   threads |-> IF StartsLoop(self, event) THEN Run(n) ELSE n]

subscribe(self, n, event, callback) ==
  [self |-> [self EXCEPT !._listeners[event] = callback],
   threads |-> IF StartsLoop(self, event) THEN Run(n) ELSE n]

(* --------------------------------------------------------------- create *)
\* create, had it recorded the username before looking at the response.
create_CommitsUser(self, username, password, resp) ==
  LET req_args == [headers |-> [ContentType |-> "application/json"],
                   url |-> Endpoint(self.endpoints, "chatroom"),
                   json |-> [chatroom_name |-> self.name,
                             username |-> username, password |-> password]]
      rq == Request(self, "post", req_args, resp)
      requests == <<Sent("post", req_args, resp, rq)>>
  IN  IF rq.out = "raise" THEN Fail(self, rq.error, requests, rq.calls)
      ELSE IF rq.out = "none"
      THEN Done([self EXCEPT !.user_id = username], <<>>, requests, rq.calls)
      ELSE
        LET response == rq.value
            joined == [self EXCEPT
                         !.name = response.chatroom_name,
                         !.uid = response.chatroomID,
                         !.user_id = response.userID,
                         !.endpoints = EndpointSet(@, "uid", response.chatroomID)]
            uc == update_channels(joined, TRUE, response.channels, resp)
        IN  IF uc.outcome = "raise" THEN Fail(uc.self, uc.error, requests, <<>>)
            ELSE Done(uc.self, <<>>, requests, <<>>)

\* Chatroom.create
create(self, username, password, resp) ==
  LET req_args == [headers |-> [ContentType |-> "application/json"],
                   url |-> Endpoint(self.endpoints, "chatroom"),
                   json |-> [chatroom_name |-> self.name,
                             username |-> username, password |-> password]]
      rq == Request(self, "post", req_args, resp)
      requests == <<Sent("post", req_args, resp, rq)>>
  IN  IF rq.out = "raise" THEN Fail(self, rq.error, requests, rq.calls)
      ELSE IF rq.out = "none" THEN Done(self, <<>>, requests, rq.calls)
      ELSE
        LET response == rq.value
            joined == [self EXCEPT
                         !.name = response.chatroom_name,
                         !.uid = response.chatroomID,
                         !.user_id = response.userID,
                         !.endpoints = EndpointSet(@, "uid", response.chatroomID)]
            uc == update_channels(joined, TRUE, response.channels, resp)
        IN  IF uc.outcome = "raise" THEN Fail(uc.self, uc.error, requests, <<>>)
            ELSE Done(uc.self, <<>>, requests, <<>>)

(* ------------------------------------------------------- create_channel *)
\* Chatroom.create_channel: the Channel built from the response is handed to
\* _update_channels, which takes the elements of its list for dicts.
create_channel(self, name, resp) ==
  LET req_args == [url |-> Endpoint(self.endpoints, "channels"),
                   json |-> [userID |-> self.user_id, channel_name |-> name]]
      rq == Request(self, "post", req_args, resp)
      requests == <<Sent("post", req_args, resp, rq)>>
  IN  IF rq.out = "raise" THEN Fail(self, rq.error, requests, rq.calls)
      ELSE IF rq.out = "none" THEN Done(self, <<>>, requests, rq.calls)
      ELSE
        LET channel == from_dict(rq.value)
            uc == update_channels(self, TRUE, <<channel>>, resp)
        IN  IF uc.outcome = "raise" THEN Fail(uc.self, uc.error, requests, <<>>)
            ELSE Done(uc.self, <<channel>>, requests, <<>>)

(* ---------------------------------------------------------------- login *)
\* login, had it returned early on a failure a handler took, as create does.
login_ReturnsOnFailure(self, user_id, password, resp, resp2) ==
  LET req_args == [url |-> Endpoint(self.endpoints, "login"),
                   json |-> [userID |-> user_id, password |-> password]]
      rq == Request(self, "post", req_args, resp)
      requests == <<Sent("post", req_args, resp, rq)>>
  IN  IF rq.out = "raise" THEN Fail(self, rq.error, requests, rq.calls)
      ELSE IF rq.out = "none" THEN Done(self, <<>>, requests, rq.calls)
      ELSE
        LET uc == update_channels([self EXCEPT !.user_id = user_id],
                                  FALSE, <<>>, resp2)
        IN  IF uc.outcome = "raise"
            THEN Fail(uc.self, uc.error, requests \o uc.requests,
                      rq.calls \o uc.calls)
            ELSE Done(uc.self, Value(rq), requests \o uc.requests,
                      rq.calls \o uc.calls)

\* Chatroom.login: resp answers the login POST, resp2 the channel-list GET.
login(self, user_id, password, resp, resp2) ==
  LET req_args == [url |-> Endpoint(self.endpoints, "login"),
                   json |-> [userID |-> user_id, password |-> password]]
      rq == Request(self, "post", req_args, resp)
      requests == <<Sent("post", req_args, resp, rq)>>
  IN  IF rq.out = "raise" THEN Fail(self, rq.error, requests, rq.calls)
      ELSE
        LET uc == update_channels([self EXCEPT !.user_id = user_id],
                                  FALSE, <<>>, resp2)
        IN  IF uc.outcome = "raise"
            THEN Fail(uc.self, uc.error, requests \o uc.requests,
                      rq.calls \o uc.calls)
            ELSE Done(uc.self, Value(rq), requests \o uc.requests,
                      rq.calls \o uc.calls)

(* --------------------------------------------------------- get_messages *)
\* Chatroom.get_messages: channel = NoneChannel is the default argument.
get_messages(self, channel, count, time, resp) ==
  IF channel # NoneChannel THEN
    LET chosen == [self EXCEPT !.active_channel = channel]
        req_args == [url |-> Endpoint(self.endpoints, "messages"),
                     headers |-> [channelID |-> channel.uid,
                                  count |-> count, time |-> time]]
        rq == Request(chosen, "get", req_args, resp)
        requests == <<Sent("get", req_args, resp, rq)>>
    IN  IF rq.out = "raise" THEN Fail(chosen, rq.error, requests, rq.calls)
        ELSE Done(chosen, Value(rq), requests, rq.calls)
  ELSE IF self.active_channel = NoneChannel
    THEN Fail(self, "ValueError", <<>>, <<>>)
  ELSE Fail(self, "ValueError", <<>>, <<>>)

(* ----------------------------------------------------------------- send *)
\* send without the check for a missing channel: it posts with the channelID
\* of whatever active_channel holds.
send_Unchecked(self, content, channel, reply_id, resp) ==
  LET chosen == IF channel # NoneChannel
                THEN [self EXCEPT !.active_channel = channel] ELSE self
      endpoint == IF content.type = "bytes"
                  THEN Endpoint(chosen.endpoints, "files")
                  ELSE Endpoint(chosen.endpoints, "messages")
      req_args == [url |-> <<chosen.url>> \o endpoint,
                   json |-> [userID |-> chosen.user_id,
                             channelID |-> chosen.active_channel.uid,
                             replyID |-> reply_id, data |-> content]]
      rq == Request(chosen, "post", req_args, resp)
      requests == <<Sent("post", req_args, resp, rq)>>
  IN  IF rq.out = "raise" THEN Fail(chosen, rq.error, requests, rq.calls)
      ELSE Done(chosen, Value(rq), requests, rq.calls)

\* Chatroom.send: content is text or bytes; the URL is self.url followed by
\* the endpoint, which has no {chatroom_id} left to format.
send(self, content, channel, reply_id, resp) ==
  IF channel = NoneChannel /\ self.active_channel = NoneChannel
  THEN Fail(self, "ValueError", <<>>, <<>>)
  ELSE
    LET chosen == IF channel # NoneChannel
                  THEN [self EXCEPT !.active_channel = channel] ELSE self
        endpoint == IF content.type = "bytes"
                    THEN Endpoint(chosen.endpoints, "files")
                    ELSE Endpoint(chosen.endpoints, "messages")
        req_args == [url |-> <<chosen.url>> \o endpoint,
                     json |-> [userID |-> chosen.user_id,
                               channelID |-> chosen.active_channel.uid,
                               replyID |-> reply_id, data |-> content]]
        rq == Request(chosen, "post", req_args, resp)
        requests == <<Sent("post", req_args, resp, rq)>>
    IN  IF rq.out = "raise" THEN Fail(chosen, rq.error, requests, rq.calls)
        ELSE Done(chosen, Value(rq), requests, rq.calls)

(* ------------------------------------------------------- inputs (callers) *)
\* Bodies the server answers 200 with, per endpoint.
CreateBodiesOf(lists) ==
  [chatroom_name : ChatroomNames, chatroomID : ChatroomIds,
   userID : UserIds, channels : lists]
CreateBodies == CreateBodiesOf(ChannelLists)
LoginBodies == {[ok |-> TRUE]}
MessageBodies == {<<>>, <<[type |-> "text", data |-> "hi"]>>}
SendBodies == {[messageID |-> "m1"]}

Responses(bodies) == Failures \cup {Ok(b) : b \in bodies}

Contents == {[type |-> "str", data |-> "hi"], [type |-> "bytes", data |-> "0x00"]}
ChannelArgs == Channels \cup {NoneChannel}
ChannelNames == {"a", "b"}

\* The events a caller of a lone Chatroom subscribes to.
RequestEvents == {"ERROR", "NETWORK_EXCEPTION"}

(* --------------------------------------------------------------- actions *)
\* A polling thread entering `while True`, nothing fetched yet.
AtTop == [pc |-> "top", messages |-> <<>>, i |-> 1, callback |-> None, log |-> <<>>]

NoCall == [op |-> "init", room |-> 0, args |-> [none |-> TRUE], outcome |-> "return",
           error |-> None, result |-> <<>>, requests |-> <<>>, calls |-> <<>>]

\* A method call on Chatroom r that ended as res says.
Call(op, r, args, res) ==
  /\ chatroom' = [chatroom EXCEPT ![r] = res.self]
  /\ last' = [op |-> op, room |-> r, args |-> args, outcome |-> res.outcome,
              error |-> res.error, result |-> res.result,
              requests |-> res.requests, calls |-> res.calls]
  /\ UNCHANGED <<loop, runners>>

Subscribe(r, event, callback) ==
  /\ r \in alive
  /\ LET sub == subscribe(chatroom[r], threads[r], event, callback)
     IN  /\ sub.threads <= MaxThreads
         /\ threads' = [threads EXCEPT ![r] = sub.threads]
         /\ Call("subscribe", r, [event |-> event, callback |-> callback],
                 Done(sub.self, <<>>, <<>>, <<>>))
  /\ UNCHANGED <<alive, teacup>>

Create(r, username, resp) ==
  /\ r \in alive
  /\ Call("create", r, [username |-> username, password |-> Password],
          create(chatroom[r], username, Password, resp))
  /\ UNCHANGED <<alive, threads, teacup>>

CreateChannel(r, name, resp) ==
  /\ r \in alive
  /\ Call("create_channel", r, [name |-> name], create_channel(chatroom[r], name, resp))
  /\ UNCHANGED <<alive, threads, teacup>>

Login(r, user_id, resp, resp2) ==
  /\ r \in alive
  /\ Call("login", r, [user_id |-> user_id, password |-> Password],
          login(chatroom[r], user_id, Password, resp, resp2))
  /\ UNCHANGED <<alive, threads, teacup>>

GetMessages(r, channel, resp) ==
  /\ r \in alive
  /\ Call("get_messages", r, [channel |-> channel],
          get_messages(chatroom[r], channel, None, None, resp))
  /\ UNCHANGED <<alive, threads, teacup>>

Send(r, content, channel, resp) ==
  /\ r \in alive
  /\ Call("send", r, [content |-> content, channel |-> channel],
          send(chatroom[r], content, channel, None, resp))
  /\ UNCHANGED <<alive, threads, teacup>>

(* ---------------------------------------------------------------- Teacup *)
\* Teacup.__init__
Teacup == [chatrooms |-> <<>>, _global_listeners |-> NoListeners]

\* `for event, callback in self._global_listeners.items():
\*      chat.subscribe(event, callback)` over the events still to visit.
RECURSIVE Propagate(_, _, _, _)
Propagate(self, n, listeners, events) ==
  IF events = {} THEN [self |-> self, threads |-> n]
  ELSE LET event == CHOOSE e \in events : TRUE
           sub == subscribe(self, n, event, listeners[event])
       IN  Propagate(sub.self, sub.threads, listeners, events \ {event})

Registered(listeners) == {e \in Event : listeners[e] # None}

\* The Chatroom object the next constructor call makes.
NextRoom == Cardinality(alive) + 1

\* Teacup.login, had it logged in before handing the global listeners on.
TeacupLogin_SubscribeAfter(username, chatroom_id, resp, resp2) ==
  /\ NextRoom \in Rooms
  /\ LET r == NextRoom
         chat == Chatroom(Url, chatroom_id, None)
         global == teacup._global_listeners
         res == login(chat, username, Password, resp, resp2)
         sub == IF res.outcome = "raise" THEN [self |-> res.self, threads |-> 0]
                ELSE Propagate(res.self, 0, global, Registered(global))
     IN  /\ sub.threads <= MaxThreads
         /\ alive' = alive \cup {r}
         /\ threads' = [threads EXCEPT ![r] = sub.threads]
         /\ Call("Teacup.login", r, [username |-> username, chatroom |-> chatroom_id],
                 IF res.outcome = "raise" THEN res
                 ELSE Done(sub.self, <<r>>, res.requests, res.calls))
  /\ UNCHANGED teacup

\* Teacup.login: the result is the handle of the new Chatroom.
TeacupLogin(username, chatroom_id, resp, resp2) ==
  /\ NextRoom \in Rooms
  /\ LET r == NextRoom
         chat == Chatroom(Url, chatroom_id, None)
         global == teacup._global_listeners
         sub == Propagate(chat, 0, global, Registered(global))
         res == login(sub.self, username, Password, resp, resp2)
     IN  /\ sub.threads <= MaxThreads
         /\ alive' = alive \cup {r}
         /\ threads' = [threads EXCEPT ![r] = sub.threads]
         /\ Call("Teacup.login", r, [username |-> username, chatroom |-> chatroom_id],
                 IF res.outcome = "raise" THEN res
                 ELSE Done(res.self, <<r>>, res.requests, res.calls))
  /\ UNCHANGED teacup

\* Teacup.create_chatroom: `response` is what Chatroom.create returned.
TeacupCreateChatroom(name, username, resp) ==
  /\ NextRoom \in Rooms
  /\ LET r == NextRoom
         chat == Chatroom(Url, None, name)
         global == teacup._global_listeners
         sub == Propagate(chat, 0, global, Registered(global))
         res == create(sub.self, username, Password, resp)
         response == res.result
     IN  /\ sub.threads <= MaxThreads
         /\ alive' = alive \cup {r}
         /\ threads' = [threads EXCEPT ![r] = sub.threads]
         /\ Call("Teacup.create_chatroom", r, [name |-> name, username |-> username],
                 IF res.outcome = "raise" THEN res
                 ELSE IF response = <<>>
                   THEN Done(res.self, <<>>, res.requests, res.calls)
                 ELSE Done(res.self, <<r>>, res.requests, res.calls))
  /\ UNCHANGED teacup

\* `for chatroom in self.chatrooms: chatroom.subscribe(event, callback)`
RECURSIVE SubscribeRooms(_, _, _, _, _)
SubscribeRooms(rooms, ths, held, event, callback) ==
  IF held = <<>> THEN [chatroom |-> rooms, threads |-> ths]
  ELSE LET r == Head(held)
           sub == subscribe(rooms[r], ths[r], event, callback)
       IN  SubscribeRooms([rooms EXCEPT ![r] = sub.self],
                          [ths EXCEPT ![r] = sub.threads],
                          Tail(held), event, callback)

\* Teacup.subscribe_all
SubscribeAll(event, callback) ==
  /\ LET all == SubscribeRooms(chatroom, threads, teacup.chatrooms, event, callback)
     IN  /\ \A r \in Rooms : all.threads[r] <= MaxThreads
         /\ chatroom' = all.chatroom
         /\ threads' = all.threads
  /\ teacup' = [teacup EXCEPT !._global_listeners[event] = callback]
  /\ last' = [NoCall EXCEPT !.op = "subscribe_all",
                            !.args = [event |-> event, callback |-> callback]]
  /\ UNCHANGED <<alive, loop, runners>>

(* ------------------------------------------------------------------ Init *)
Fresh == Chatroom(Url, None, None)

\* A caller constructs one Chatroom, for an existing chatroom (uid given) or
\* for one still to be created (name given).
Init ==
  /\ alive = {1}
  /\ \E new \in {Chatroom(Url, "c1", None), Chatroom(Url, None, "x")} :
       chatroom = [r \in Rooms |-> IF r = 1 THEN new ELSE Fresh]
  /\ threads = [r \in Rooms |-> 0]
  /\ teacup = Teacup
  /\ last = NoCall
  /\ loop = [r \in Rooms |-> AtTop]
  /\ runners = <<>>

Next ==
  \/ \E r \in Rooms, e \in RequestEvents : Subscribe(r, e, "cb")
  \/ \E r \in Rooms, u \in UserIds, resp \in Responses(CreateBodies) :
       Create(r, u, resp)
  \/ \E r \in Rooms, n \in ChannelNames, resp \in Responses(ChannelDicts) :
       CreateChannel(r, n, resp)
  \/ \E r \in Rooms, u \in UserIds, resp \in Responses(LoginBodies),
        resp2 \in Responses(ChannelLists) : Login(r, u, resp, resp2)
  \/ \E r \in Rooms, ch \in ChannelArgs, resp \in Responses(MessageBodies) :
       GetMessages(r, ch, resp)
  \/ \E r \in Rooms, c \in Contents, ch \in ChannelArgs,
        resp \in Responses(SendBodies) : Send(r, c, ch, resp)

Spec == Init /\ [][Next]_vars

(* ------------------------------------------- the Teacup and its Chatrooms *)
\* A caller constructs a Teacup; every Chatroom is built by it.
InitTeacup ==
  /\ alive = {}
  /\ chatroom = [r \in Rooms |-> Fresh]
  /\ threads = [r \in Rooms |-> 0]
  /\ teacup = Teacup
  /\ last = NoCall
  /\ loop = [r \in Rooms |-> AtTop]
  /\ runners = <<>>

NextTeacup ==
  \/ \E e \in SubscribedEvents, cb \in Callbacks : SubscribeAll(e, cb)
  \/ \E u \in UserIds, resp \in Responses(LoginBodies),
        resp2 \in Responses(ShortLists) : TeacupLogin(u, "c1", resp, resp2)
  \/ \E u \in UserIds, resp \in Responses(CreateBodiesOf(ShortLists)) :
       TeacupCreateChatroom("x", u, resp)
  \/ \E r \in Rooms, e \in SubscribedEvents, cb \in Callbacks : Subscribe(r, e, cb)

SpecTeacup == InitTeacup /\ [][NextTeacup]_vars

(* ------------------------------------------------------ the polling loop *)
\* The type tags a Message may carry; "text" stands for every other tag.
MessageTypes == {"text", "delete", "system", "system-silent"}

\* What the fetch step of _loop may hand over: the source has the fetch
\* commented out and an empty list in its place.
Batches ==
  {[k \in 1 .. Len(ts) |-> [uid |-> k, type |-> ts[k]]] :
     ts \in SeqsUpTo(MessageTypes, MaxMessages)}

\* _loop, had it taken every system tag for "system".
EventOf_AnySystem(type) ==
  CASE type = "delete" -> "MSG_DEL"
    [] type \in {"system", "system-silent"} -> "MSG_SYS"
    [] OTHER -> "MSG_NEW"

\* The if/elif chain of _loop: the event a message is notified under.
EventOf(type) ==
  CASE type = "delete" -> "MSG_DEL"
    [] type = "system" -> "MSG_SYS"
    [] type = "system-silent" -> "MSG_SYS_SILENT"
    [] OTHER -> "MSG_NEW"

\* _notify returned (callback = None: it returned without calling anything)
\* and the for statement moves on; after the last message comes the sleep.
Notified(th, callback) ==
  [th EXCEPT !.log = Append(@, [message |-> th.messages[th.i],
                                event |-> EventOf(th.messages[th.i].type),
                                callback |-> callback]),
             !.i = @ + 1,
             !.callback = None,
             !.pc = IF th.i + 1 > Len(th.messages) THEN "sleep" ELSE "for"]

\* _notify up to its call: the callback is read from _listeners once.
notify(self, th) ==
  LET callback == self._listeners[EventOf(th.messages[th.i].type)]
  IN  IF callback = None THEN Notified(th, None)
      ELSE [th EXCEPT !.pc = "call", !.callback = callback]

\* _notify, had it called what is bound now as well as what it had read.
called_Both(self, th) ==
  LET bound == self._listeners[EventOf(th.messages[th.i].type)]
  IN  IF bound = th.callback THEN Notified(th, th.callback)
      ELSE [Notified(th, bound) EXCEPT
              !.log = Append(Notified(th, th.callback).log, @[Len(@)])]

\* callback(*data) in _notify: the callback read before is called.
called(self, th) == Notified(th, th.callback)

\* `messages = ...` at the top of an iteration of the first polling thread.
Fetch(r, batch) ==
  /\ r \in alive
  /\ threads[r] >= 1
  /\ loop[r].pc = "top"
  /\ loop' = [loop EXCEPT ![r] = [AtTop EXCEPT
                !.messages = batch,
                !.pc = IF batch = <<>> THEN "sleep" ELSE "for"]]
  /\ UNCHANGED <<alive, chatroom, threads, teacup, last, runners>>

\* The loop takes its next message and calls _notify.
Notify(r) ==
  /\ loop[r].pc = "for"
  /\ loop' = [loop EXCEPT ![r] = notify(chatroom[r], @)]
  /\ UNCHANGED <<alive, chatroom, threads, teacup, last, runners>>

\* The callback _notify read is called and returns.
CallBack(r) ==
  /\ loop[r].pc = "call"
  /\ loop' = [loop EXCEPT ![r] = called(chatroom[r], @)]
  /\ UNCHANGED <<alive, chatroom, threads, teacup, last, runners>>

\* sleep(self.interval), then the next iteration.
Sleep(r) ==
  /\ loop[r].pc = "sleep"
  /\ loop' = [loop EXCEPT ![r] = AtTop]
  /\ UNCHANGED <<alive, chatroom, threads, teacup, last, runners>>

\* The events and callbacks a caller subscribes with while the loop runs.
LoopEvents == {"MSG_NEW", "MSG_DEL"}
LoopCallbacks == {"cb", "cb2"}

InitLoop ==
  /\ alive = {1}
  /\ chatroom = [r \in Rooms |-> IF r = 1 THEN Chatroom(Url, "c1", None) ELSE Fresh]
  /\ threads = [r \in Rooms |-> 0]
  /\ teacup = Teacup
  /\ last = NoCall
  /\ loop = [r \in Rooms |-> AtTop]
  /\ runners = <<>>

NextLoop ==
  \/ \E r \in Rooms, e \in LoopEvents, cb \in LoopCallbacks : Subscribe(r, e, cb)
  \/ \E r \in Rooms, batch \in Batches : Fetch(r, batch)
  \/ \E r \in Rooms : Notify(r)
  \/ \E r \in Rooms : CallBack(r)
  \/ \E r \in Rooms : Sleep(r)

SpecLoop == InitLoop /\ [][NextLoop]_vars

\* A caller that only subscribes, to error events and to others.
NextSubscribe ==
  \E r \in Rooms, e \in RequestEvents \cup LoopEvents, cb \in LoopCallbacks :
    Subscribe(r, e, cb)

SpecSubscribe == InitLoop /\ [][NextSubscribe]_vars

(* --------------------------------------------------------- Teacup.thread *)
\* What calling the target may do: return a value or raise.
TargetOutcomes ==
  {[out |-> "return", value |-> v] : v \in {"r1", "r2"}}
    \cup {[out |-> "raise", value |-> "Exception"]}

\* target_args as the caller gives it: left out (<<>>) or a tuple (<<t>>).
TargetArgs == {<<>>, <<<<"a">>>>}
ThreadCallbacks == {"cb", "cb2"}

\* Teacup.thread: the defaults are filled in and Thread(target=_inner) is
\* started; the runner has not called the target yet.
thread(target, callback, target_args, target_kwargs) ==
  [pc |-> "target", target |-> target, callback |-> callback,
   target_args |-> IF target_args = <<>> THEN <<>> ELSE target_args[1],
   target_kwargs |-> IF target_kwargs = <<>> THEN <<>> ELSE target_kwargs[1],
   result |-> <<>>, error |-> None, calls |-> <<>>]

\* _inner, had it called the callback whether or not the target returned.
inner_target_ThenAlways(rn, outcome) ==
  IF outcome.out = "raise"
  THEN [rn EXCEPT !.pc = "callback", !.error = outcome.value]
  ELSE [rn EXCEPT !.pc = "callback", !.result = <<outcome.value>>]

\* _inner: target(*target_args, **target_kwargs); an exception ends the thread.
inner_target(rn, outcome) ==
  IF outcome.out = "raise"
  THEN [rn EXCEPT !.pc = "dead", !.error = outcome.value]
  ELSE [rn EXCEPT !.pc = "callback", !.result = <<outcome.value>>]

\* _inner: callback(<what the target returned>)
inner_callback(rn) ==
  [rn EXCEPT !.pc = "done",
             !.calls = Append(@, [callback |-> rn.callback, args |-> rn.result])]

TeacupThread(tg, cb, target_args, target_kwargs) ==
  /\ Len(runners) < MaxRunners
  /\ runners' = Append(runners, thread(tg, cb, target_args, target_kwargs))
  /\ last' = [NoCall EXCEPT !.op = "thread",
                            !.args = [target |-> tg, callback |-> cb,
                                      target_args |-> target_args,
                                      target_kwargs |-> target_kwargs]]
  /\ UNCHANGED <<alive, chatroom, threads, teacup, loop>>

InnerTarget(k, outcome) ==
  /\ k \in DOMAIN runners
  /\ runners[k].pc = "target"
  /\ runners' = [runners EXCEPT ![k] = inner_target(@, outcome)]
  /\ UNCHANGED <<alive, chatroom, threads, teacup, last, loop>>

InnerCallback(k) ==
  /\ k \in DOMAIN runners
  /\ runners[k].pc = "callback"
  /\ runners' = [runners EXCEPT ![k] = inner_callback(@)]
  /\ UNCHANGED <<alive, chatroom, threads, teacup, last, loop>>

NextThread ==
  \/ \E cb \in ThreadCallbacks, ta \in TargetArgs : TeacupThread("f", cb, ta, <<>>)
  \/ \E k \in 1 .. MaxRunners, outcome \in TargetOutcomes : InnerTarget(k, outcome)
  \/ \E k \in 1 .. MaxRunners : InnerCallback(k)

SpecThread == InitTeacup /\ [][NextThread]_vars

(* ------------------------------------- the Teacup holding its Chatrooms *)
\* Nothing in Teacup appends to self.chatrooms: the caller that was handed a
\* Chatroom by login or create_chatroom appends it to the list itself.
Hold(r) ==
  /\ last.op \in {"Teacup.login", "Teacup.create_chatroom"}
  /\ last.outcome = "return"
  /\ last.result = <<r>>
  /\ r \notin Range(teacup.chatrooms)
  /\ teacup' = [teacup EXCEPT !.chatrooms = Append(@, r)]
  /\ last' = [NoCall EXCEPT !.op = "chatrooms.append", !.room = r]
  /\ UNCHANGED <<alive, chatroom, threads, loop, runners>>

\* The events and the answers of the server while Chatrooms are being held.
HeldEvents == {"ERROR", "MSG_NEW"}
HeldResponses(bodies) == {ErrorResponse} \cup {Ok(b) : b \in bodies}

NextHeld ==
  \/ \E e \in HeldEvents, cb \in LoopCallbacks : SubscribeAll(e, cb)
  \/ \E u \in UserIds, resp \in HeldResponses(LoginBodies),
        resp2 \in HeldResponses({<<>>}) : TeacupLogin(u, "c1", resp, resp2)
  \/ \E u \in UserIds, resp \in HeldResponses(CreateBodiesOf({<<>>})) :
       TeacupCreateChatroom("x", u, resp)
  \/ \E r \in Rooms : Hold(r)

SpecHeld == InitTeacup /\ [][NextHeld]_vars

(* ================================================================ claims *)
\* The Chatroom the last call was made on.
Target == chatroom[last.room]

(* C1: the polling loop of a Chatroom is started at most once, whatever the
   subscribe calls on it (direct ones and those Teacup.login and
   Teacup.create_chatroom propagate): _is_looping is set by the first start
   and no second thread is spawned. *)
C1_LoopStartedAtMostOnce ==
  \A r \in Rooms :
    /\ threads[r] <= 1
    /\ chatroom[r]._is_looping <=> (threads[r] = 1)

(* C2: every _request call has exactly one outcome: it returns the JSON body
   and invokes no handler, or it invokes exactly one handler and returns
   None, or it raises and has invoked no handler. *)
C2_OneOutcomePerRequest ==
  \A i \in DOMAIN last.requests :
    LET q == last.requests[i]
    IN  /\ Len(q.calls) <= 1
        /\ q.out = "json" => (q.calls = <<>> /\ Len(q.returned) = 1)
        /\ q.out = "none" => (Len(q.calls) = 1 /\ q.returned = <<>>)
        /\ q.out = "raise" => (q.calls = <<>> /\ q.returned = <<>>)

\* login whose POST went to a handler and whose channel-list GET raised.
C2_Witness ==
  /\ last.op = "login"
  /\ Len(last.requests) = 2
  /\ last.requests[1].out = "none"
  /\ last.requests[2].out = "raise"

(* C3: _request routes a failure to its own handler kind only.  A 200 response
   with a JSON body returns the body; another status invokes the ERROR handler
   with (response, method_name, args) and returns None when one is bound, and
   raises otherwise, whatever is bound for NETWORK_EXCEPTION; a transport
   failure invokes the NETWORK_EXCEPTION handler with (exception, method_name,
   args) and returns None when one is bound, and re-raises otherwise, whatever
   is bound for ERROR. *)
C3_RoutedByKind ==
  \A i \in DOMAIN last.requests :
    LET q == last.requests[i]
        resp == q.response
        on_error == Target._listeners["ERROR"]
        on_exception == Target._listeners["NETWORK_EXCEPTION"]
    IN  IF resp.kind = "exception" THEN
          IF on_exception # None
          THEN /\ q.out = "none"
               /\ q.calls = <<Invoke("NETWORK_EXCEPTION", on_exception,
                                     resp.exception, q.method, q.args)>>
          ELSE q.out = "raise" /\ q.error = resp.exception /\ q.calls = <<>>
        ELSE IF resp.status_code = 200 THEN
          IF "json" \in DOMAIN resp
          THEN q.out = "json" /\ q.returned = <<resp.json>> /\ q.calls = <<>>
          ELSE q.out = "raise" /\ q.calls = <<>>
        ELSE
          IF on_error # None
          THEN /\ q.out = "none"
               /\ q.calls = <<Invoke("ERROR", on_error, resp, q.method, q.args)>>
          ELSE q.out = "raise" /\ q.error = "RuntimeError" /\ q.calls = <<>>

\* A transport failure raised although an ERROR handler was bound.
C3_Witness ==
  /\ last.requests # <<>>
  /\ last.requests[1].response.kind = "exception"
  /\ last.requests[1].out = "raise"
  /\ Target._listeners["ERROR"] # None

(* C4: the active channel of a Chatroom is unset or is an element of its
   channels list, in every reachable state. *)
C4_ActiveChannelIsListed ==
  \A r \in alive :
    \/ chatroom[r].active_channel = NoneChannel
    \/ Contains(chatroom[r].channels, chatroom[r].active_channel)

(* C5: get_messages without a channel argument on a Chatroom whose active
   channel is set does not fail for want of a channel: it issues one GET to
   the messages endpoint with the active channel's uid as channelID and
   returns what the request returned. *)
C5_GetMessagesFallsBack ==
  ( /\ last.op = "get_messages"
    /\ last.args.channel = NoneChannel
    /\ Target.active_channel # NoneChannel )
  => /\ last.error # "ValueError"
     /\ Len(last.requests) = 1
     /\ last.requests[1].method = "get"
     /\ last.requests[1].args.url = Endpoint(Target.endpoints, "messages")
     /\ last.requests[1].args.headers.channelID = Target.active_channel.uid
     /\ last.result = last.requests[1].returned

\* One step of get_messages or send on Chatroom r without any channel.
C6_Step(r) ==
  ( /\ last'.op \in {"get_messages", "send"}
    /\ last'.room = r
    /\ last'.args.channel = NoneChannel
    /\ chatroom[r].active_channel = NoneChannel )
  => /\ last'.outcome = "raise"
     /\ last'.error = "ValueError"
     /\ last'.requests = <<>>
     /\ last'.calls = <<>>
     /\ UNCHANGED <<alive, chatroom, threads, teacup>>

(* C6: get_messages and send, called without a channel argument on a Chatroom
   whose active channel is unset, raise the missing-channel ValueError, issue
   no request, invoke no handler and change nothing. *)
C6_MissingChannelRaisesFirst == [][\A r \in Rooms : C6_Step(r)]_vars

\* send() with no channel at all has just raised.
C6_Witness ==
  /\ last.op = "send"
  /\ last.args.channel = NoneChannel
  /\ Target.active_channel = NoneChannel
  /\ last.error = "ValueError"

(* C7: the channels list of a Chatroom never holds two entries with the same
   uid, whatever channel objects the server returns. *)
C7_UniqueUids ==
  \A r \in alive :
    \A i, j \in DOMAIN chatroom[r].channels :
      chatroom[r].channels[i].uid = chatroom[r].channels[j].uid => i = j

\* How often channel occurs in the list.
Occurrences(channels, channel) ==
  Cardinality({i \in DOMAIN channels : channels[i] = channel})

\* One step of create_channel on a logged-in Chatroom r.
C8_Step(r) ==
  ( /\ last'.op = "create_channel"
    /\ last'.room = r
    /\ Truthy(chatroom[r].user_id) )
  => LET q == last'.requests[1]
     IN  /\ q.out = "json" =>
               /\ last'.outcome = "return"
               /\ last'.result = <<from_dict(q.response.json)>>
               /\ Occurrences(chatroom'[r].channels,
                              from_dict(q.response.json)) = 1
         /\ q.out = "none" =>
               /\ last'.outcome = "return"
               /\ last'.result = <<>>
               /\ chatroom'[r].channels = chatroom[r].channels

(* C8: create_channel on a logged-in Chatroom returns the Channel built from a
   200 response and leaves it in the channels list exactly once; when the
   request fails and a handler captures it, it returns None and leaves the
   channels list as it was. *)
C8_CreateChannelReturnsChannel == [][\A r \in Rooms : C8_Step(r)]_vars

(* C9: Teacup.create_chatroom returns the new Chatroom when the creation
   request succeeds, and returns None without raising only when the request
   failed and a handler captured the failure. *)
C9_CreateChatroomReturnsChatroom ==
  last.op = "Teacup.create_chatroom" =>
    LET q == last.requests[1]
    IN  /\ q.out = "json" =>
              (last.outcome = "return" /\ last.result = <<last.room>>)
        /\ (last.outcome = "return" /\ last.result = <<>>) => q.out = "none"

\* A Chatroom as its constructor left it (listeners aside).
IsFresh(self) ==
  /\ self.user_id = None
  /\ self.channels = <<>>
  /\ self.active_channel = NoneChannel

\* One step of create on a fresh Chatroom r whose POST returned a body.
C10_Step(r) ==
  ( /\ last'.op = "create"
    /\ last'.room = r
    /\ IsFresh(chatroom[r])
    /\ last'.requests[1].out = "json" )
  => LET response == last'.requests[1].response.json
         self == chatroom'[r]
     IN  /\ self.name = response.chatroom_name
         /\ self.uid = response.chatroomID
         /\ self.user_id = response.userID
         /\ self.endpoints._uid = response.chatroomID
         /\ Range(self.channels) = {from_dict(d) : d \in Range(response.channels)}
         /\ response.channels = <<>> =>
              (self.channels = <<>> /\ self.active_channel = NoneChannel)
         /\ response.channels # <<>> =>
              /\ self.active_channel = from_dict(response.channels[1])
              /\ self.channels[1] = from_dict(response.channels[1])

(* C10: create on a fresh Chatroom whose POST succeeds sets name, uid and
   user_id from the response, binds the uid into the endpoints and ingests
   the channels: an empty list leaves channels empty and active_channel
   unset, a non-empty list makes its first channel the active one. *)
C10_CreateSetsIdentity == [][\A r \in Rooms : C10_Step(r)]_vars

\* create answered with two channels: the first one is active.
C10_Witness ==
  /\ last.op = "create"
  /\ last.requests[1].out = "json"
  /\ Len(last.requests[1].response.json.channels) = 2
  /\ Target.channels = <<from_dict(last.requests[1].response.json.channels[1]),
                          from_dict(last.requests[1].response.json.channels[2])>>
  /\ Target.active_channel = Target.channels[1]
  /\ Target.uid = last.requests[1].response.json.chatroomID

\* One step of create on Chatroom r whose POST failed and went to a handler.
C11_Step(r) ==
  ( /\ last'.op = "create"
    /\ last'.room = r
    /\ last'.requests[1].response \in Failures
    /\ last'.requests[1].out = "none" )
  => /\ last'.outcome = "return"
     /\ last'.result = <<>>
     /\ Len(last'.calls) = 1
     /\ chatroom'[r].uid = chatroom[r].uid
     /\ chatroom'[r].name = chatroom[r].name
     /\ chatroom'[r].user_id = chatroom[r].user_id
     /\ chatroom'[r].channels = chatroom[r].channels
     /\ chatroom'[r].active_channel = chatroom[r].active_channel
     /\ chatroom'[r].endpoints = chatroom[r].endpoints

(* C11: when the request of create fails (a non-200 status or a transport
   failure) and the matching handler captures the failure, create returns
   with uid, name, user_id, channels, active_channel and the identifier bound
   in the endpoints exactly as they were, and the handler was invoked once. *)
C11_FailedCreateChangesNothing == [][\A r \in Rooms : C11_Step(r)]_vars

\* create on a Chatroom without a uid, refused by the server, handler bound.
C11_Witness ==
  /\ last.op = "create"
  /\ last.requests[1].out = "none"
  /\ last.requests[1].response = ErrorResponse
  /\ Len(last.calls) = 1
  /\ Target.uid = None
  /\ Target.user_id = None

(* C12: whenever login returns, user_id is the user id it was given, the
   login POST having succeeded or having failed into a handler, and the
   requests it made are the login POST followed by the channel-list GET; a
   login that raises made no GET before its POST either. *)
C12_LoginSetsUserThenLists ==
  last.op = "login" =>
    /\ last.requests # <<>>
    /\ last.requests[1].method = "post"
    /\ last.requests[1].args.url = Endpoint(Target.endpoints, "login")
    /\ \A i \in DOMAIN last.requests :
         (last.requests[i].method = "get") => i = 2
    /\ last.outcome = "return" =>
         /\ Target.user_id = last.args.user_id
         /\ Len(last.requests) = 2
         /\ last.requests[2].method = "get"
         /\ last.requests[2].args.url = Endpoint(Target.endpoints, "channels")

\* login returned although the server refused the POST: the handler took it.
C12_Witness ==
  /\ last.op = "login"
  /\ last.outcome = "return"
  /\ last.requests[1].out = "none"
  /\ last.requests[1].response = ErrorResponse
  /\ Target.user_id = last.args.user_id

(* C13: create_channel, send and get_messages on a Chatroom whose user_id is
   unset raise before any request is made. *)
C13_NoRequestWithoutUser ==
  ( /\ last.op \in {"create_channel", "send", "get_messages"}
    /\ Target.user_id = None )
  => (last.outcome = "raise" /\ last.requests = <<>>)

(* C19: the request of send goes to exactly the URL the endpoints yield, the
   files URL for bytes and the messages URL for text, and its payload names
   the channel that is active after the channel was resolved. *)
C19_SendUrlIsEndpoint ==
  (last.op = "send" /\ last.requests # <<>>) =>
    LET q == last.requests[1]
    IN  /\ q.method = "post"
        /\ q.args.url = Endpoint(Target.endpoints,
                                 IF last.args.content.type = "bytes"
                                 THEN "files" ELSE "messages")
        /\ q.args.json.channelID = Target.active_channel.uid


\* The event kind a type tag stands for.
EventFor(type) ==
  IF type = "delete" THEN "MSG_DEL"
  ELSE IF type = "system" THEN "MSG_SYS"
  ELSE IF type = "system-silent" THEN "MSG_SYS_SILENT"
  ELSE "MSG_NEW"

\* A step of Chatroom r's caller (a subscribe call), not of its polling loop.
Subscribed(r) ==
  /\ last'.op = "subscribe"
  /\ last'.room = r
  /\ loop' = loop

\* A step in which the polling loop of Chatroom r enters _notify.
Notifies(r) == loop[r].pc = "for" /\ loop'[r] # loop[r]

\* The message that loop is at, and the event it is notified under.
Current(r) == loop[r].messages[loop[r].i]

C14_Step(r) ==
  /\ Subscribed(r) =>
       chatroom'[r]._listeners =
         [chatroom[r]._listeners EXCEPT ![last'.args.event] = last'.args.callback]
  /\ Notifies(r) =>
       LET bound == chatroom[r]._listeners[EventFor(Current(r).type)]
       IN  IF bound = None
           THEN /\ loop'[r].pc # "call"
                /\ loop'[r].log[Len(loop'[r].log)].callback = None
           ELSE /\ loop'[r].pc = "call"
                /\ loop'[r].callback = bound
                /\ loop'[r].log = loop[r].log

(* C14: subscribe(event, callback) binds exactly that callback to the event,
   replacing whatever was bound, and leaves the binding of every other event
   as it was; a notification of an event reads the one callback bound to it
   at that moment, so a replaced callback is not called for later ones. *)
C14_LastSubscriptionWins == [][\A r \in Rooms : C14_Step(r)]_vars

\* cb was called for one message, was replaced by cb2, and the next message of
\* the same event is about to call cb2.
C14_Witness ==
  /\ last.op = "subscribe"
  /\ last.args = [event |-> "MSG_NEW", callback |-> "cb2"]
  /\ loop[1].pc = "call"
  /\ loop[1].callback = "cb2"
  /\ loop[1].log = <<[message |-> loop[1].messages[1], event |-> "MSG_NEW",
                      callback |-> "cb"]>>

C15_Step(r) ==
  Subscribed(r) =>
    IF last'.args.event \in {"ERROR", "NETWORK_EXCEPTION"}
    THEN threads'[r] = threads[r]
    ELSE threads[r] = 0 => threads'[r] = 1

(* C15: a subscribe call for ERROR or NETWORK_EXCEPTION starts no polling
   thread, so a Chatroom subscribed to these only has none; a subscribe call
   for any other event on a Chatroom that has no polling thread yet starts
   one during the call. *)
C15_LoopStartsOnFirstOtherEvent == [][\A r \in Rooms : C15_Step(r)]_vars

\* Both error events were subscribed without a thread; MSG_DEL started it.
C15_Witness ==
  /\ last.op = "subscribe"
  /\ last.args.event = "MSG_DEL"
  /\ threads[1] = 1
  /\ chatroom[1]._listeners["ERROR"] # None
  /\ chatroom[1]._listeners["NETWORK_EXCEPTION"] # None
  /\ chatroom[1]._listeners["MSG_NEW"] = None

(* C17: within one iteration of the polling loop the messages of the batch
   are notified one by one in batch order, each exactly once and under the
   event its type tag stands for (delete, system, system-silent, anything
   else); a message whose event has no callback is passed over and the ones
   after it are notified all the same; the iteration sleeps only when the
   whole batch has been gone through. *)
C17_BatchDispatchedInOrder ==
  \A r \in Rooms :
    LET th == loop[r]
    IN  /\ Len(th.log) = th.i - 1
        /\ Len(th.log) <= Len(th.messages)
        /\ \A k \in DOMAIN th.log :
             /\ th.log[k].message = th.messages[k]
             /\ th.log[k].event = EventFor(th.messages[k].type)
        /\ th.pc = "sleep" => Len(th.log) = Len(th.messages)

\* A batch gone through: its first message, a system-silent one, had no
\* callback and was passed over; its last one called cb.
C17_Witness ==
  /\ loop[1].pc = "sleep"
  /\ Len(loop[1].messages) = MaxMessages
  /\ loop[1].messages[1].type = "system-silent"
  /\ loop[1].log[1].callback = None
  /\ loop[1].log[1].event = "MSG_SYS_SILENT"
  /\ loop[1].log[MaxMessages].callback = "cb"

C20_Step(r) ==
  LET e == EventFor(Current(r).type)
  IN  /\ (Notifies(r) /\ last.op = "subscribe" /\ last.args.event = e) =>
           /\ loop'[r].pc = "call"
           /\ loop'[r].callback = last.args.callback
      /\ (loop[r].pc = "call" /\ Subscribed(r)) => loop'[r] = loop[r]
      /\ (loop[r].pc = "call" /\ loop'[r] # loop[r]) =>
           /\ loop[r].callback \in LoopCallbacks
           /\ loop'[r].log = Append(loop[r].log,
                                    [message |-> Current(r), event |-> e,
                                     callback |-> loop[r].callback])

(* C20: when a subscribe call for an event runs while the polling loop is
   notifying a message of that event, the message calls exactly one callback,
   the one _notify had read: the old one if it was read before the call, the
   new one otherwise; a message whose notification begins after the subscribe
   call returned calls the new callback. *)
C20_OneCallbackPerMessage == [][\A r \in Rooms : C20_Step(r)]_vars

\* cb was read for a message and cb2 was subscribed before cb was called:
\* the message is about to call cb alone.
C20_Witness ==
  /\ last.op = "subscribe"
  /\ last.args = [event |-> "MSG_DEL", callback |-> "cb2"]
  /\ chatroom[1]._listeners["MSG_DEL"] = "cb2"
  /\ loop[1].pc = "call"
  /\ loop[1].callback = "cb"
  /\ EventFor(loop[1].messages[loop[1].i].type) = "MSG_DEL"


\* What holds of every runner Teacup.thread has started.
C18_Runner(rn) ==
  /\ Len(rn.calls) <= 1
  /\ rn.calls # <<>> =>
       /\ rn.result # <<>>
       /\ rn.calls[1] = [callback |-> rn.callback, args |-> rn.result]
  /\ rn.pc = "done" => Len(rn.calls) = 1
  /\ rn.error # None => (rn.calls = <<>> /\ rn.pc = "dead")

C18_Step ==
  /\ \A k \in DOMAIN runners' : C18_Runner(runners'[k])
  /\ last'.op = "thread" => (last'.outcome = "return" /\ last'.error = None)
  /\ Len(runners') > Len(runners) =>
       /\ last'.op = "thread"
       /\ runners'[Len(runners')].pc = "target"
       /\ runners'[Len(runners')].calls = <<>>
  /\ \A k \in DOMAIN runners :
       runners'[k].calls # runners[k].calls => runners[k].pc = "callback"

(* C18: Teacup.thread returns once the runner is started, the target not yet
   called; the runner calls the callback once, with what the target returned,
   and only after the target returned; when the target raises the callback is
   not called and the call of thread still returned without an error. *)
C18_ThreadCallsBackOnce == [][C18_Step]_vars

\* Two runners: the target of the first raised after thread had returned, the
\* second called its callback with its target's result.
C18_Witness ==
  /\ last.op = "thread"
  /\ last.outcome = "return"
  /\ Len(runners) = 2
  /\ runners[1].pc = "dead"
  /\ runners[1].calls = <<>>
  /\ runners[2].pc = "done"
  /\ runners[2].calls = <<[callback |-> runners[2].callback, args |-> <<"r2">>]>>


C16_Step ==
  /\ last'.op = "subscribe_all" =>
       LET e == last'.args.event
           cb == last'.args.callback
       IN  /\ teacup'._global_listeners =
                [teacup._global_listeners EXCEPT ![e] = cb]
           /\ \A r \in Range(teacup.chatrooms) : chatroom'[r]._listeners[e] = cb
  /\ last'.op \in {"Teacup.login", "Teacup.create_chatroom"} =>
       LET global == teacup._global_listeners
           chat == chatroom'[last'.room]
       IN  /\ last'.requests # <<>>
           /\ \A e \in Event : global[e] # None => chat._listeners[e] = global[e]
           /\ \A i \in DOMAIN last'.requests :
                LET q == last'.requests[i]
                IN  (q.response = ErrorResponse /\ global["ERROR"] # None) =>
                      /\ q.out = "none"
                      /\ q.calls[1].event = "ERROR"
                      /\ q.calls[1].callback = global["ERROR"]

(* C16: subscribe_all(event, callback) binds the callback for the event on
   every Chatroom in Teacup.chatrooms and records it as the global listener
   of the event; a Chatroom that login or create_chatroom builds afterwards
   has every global listener bound, the latest callback of each event, by the
   time its login or create request is made: a request the server refuses
   already goes to the global ERROR listener. *)
C16_GlobalListenersReachEveryChatroom == [][C16_Step]_vars

\* A Chatroom built after subscribe_all(MSG_NEW, cb) and then held received
\* cb2 for ERROR from a later subscribe_all.
C16_Witness ==
  /\ last.op = "subscribe_all"
  /\ last.args = [event |-> "ERROR", callback |-> "cb2"]
  /\ teacup.chatrooms = <<1>>
  /\ chatroom[1]._listeners["ERROR"] = "cb2"
  /\ chatroom[1]._listeners["MSG_NEW"] = "cb"
  /\ threads[1] = 1
  /\ teacup._global_listeners =
       [NoListeners EXCEPT !["ERROR"] = "cb2", !["MSG_NEW"] = "cb"]

====
